---- MODULE Spec2Model ----
(***************************************************************************)
(* A model of jaspColumnEncoder's ColumnEncoder (src/columnencoder.cpp):   *)
(* the per-encoder name tables built by setCurrentNames, the process-wide  *)
(* registry (one primary encoder, a set of auxiliary encoders, six lazily  *)
(* rebuilt aggregate views) and the text substitution routines             *)
(* (replaceAll, encodeRScript, getPositionsColumnNameMatches).             *)
(*                                                                         *)
(* A std::string is a sequence of one-character strings, so that offsets,  *)
(* substrings and character classes are what the code computes.  Offsets   *)
(* are 0-based as in the code; SubSeq indices are shifted by one.          *)
(***************************************************************************)
EXTENDS Integers, Sequences, FiniteSets, TLC

VARIABLES
    _columnEncoder,             \* static ColumnEncoder * : NULL or the primary's id
    _otherEncoders,             \* static std::set<ColumnEncoder*> * : NoSet or << the set of ids >>
    encoders,                   \* the live ColumnEncoder objects, by id
    _encodingMapInvalidated,
    _decodingMapInvalidated,
    _decodingTypeInvalidated,
    _decoSafeMapInvalidated,
    _originalNamesInvalidated,
    _encodedNamesInvalidated,
    encodingMap_map,            \* the function-local statics of the six aggregate views
    decodingMap_map,
    decodingTypes_map,
    decodingMapSafeHtml_map,
    originalNames_vec,
    encodedNames_vec,
    crashed,                    \* a null pointer was dereferenced
    nSetNames,                  \* number of setCurrentNames calls so far (bounded)
    call,                       \* the last encode / decode / columnTypeFromEncoded call
    text,                       \* script text handed to the substitution routines
    mandatoryPrefix,            \* prefix argument of encodeRScript
    script,                     \* outcome of the last substitution call
    json,                       \* document handed to encodeJson, with its flags
    changedNames                \* mapping handed to replaceColumnNamesInRScript

registryVars == << _columnEncoder, _otherEncoders, encoders,
                   _encodingMapInvalidated, _decodingMapInvalidated,
                   _decodingTypeInvalidated, _decoSafeMapInvalidated,
                   _originalNamesInvalidated, _encodedNamesInvalidated,
                   encodingMap_map, decodingMap_map, decodingTypes_map,
                   decodingMapSafeHtml_map, originalNames_vec, encodedNames_vec,
                   crashed, nSetNames >>

flagVars == << _encodingMapInvalidated, _decodingMapInvalidated,
               _decodingTypeInvalidated, _decoSafeMapInvalidated,
               _originalNamesInvalidated, _encodedNamesInvalidated >>

scriptVars == << text, mandatoryPrefix, script, json, changedNames >>

vars == << registryVars, call, scriptVars >>

-----------------------------------------------------------------------------
(* Bounds of the model. *)

MaxAux == 1
MaxSetNames == 2
MaxTextLen == 4
MaxCascadeAux == 2

\* Longest name list whose every sorted arrangement is enumerated.
MaxArranged == 4

-----------------------------------------------------------------------------
(* Strings: std::string operations on sequences of characters. *)

\* The null ColumnEncoder pointer, and the null pointer to a set of encoders.  A
\* non-null pointer to a set is the one-element sequence holding the set it points at.
NULL == "nullptr"

NoSet == << >>

NewSet(set) == << set >>

SetAt(pointer) == pointer[1]

npos == 2147483647

Min(a, b) == IF a < b THEN a ELSE b

\* std::string::substr(pos, n) for pos <= size(): n is clipped to the end.
substr(s, pos, n) == SubSeq(s, pos + 1, Min(pos + n, Len(s)))

\* std::string::find(pat, from): smallest offset >= from where pat occurs, or npos.
find(s, pat, from) ==
    LET hits == { p \in from .. (Len(s) - Len(pat)) : substr(s, p, Len(pat)) = pat }
    IN  IF hits = {} THEN npos ELSE CHOOSE p \in hits : \A q \in hits : p <= q

\* std::string::replace(pos, len, by)
replace(s, pos, len, by) == SubSeq(s, 1, pos) \o by \o SubSeq(s, pos + len + 1, Len(s))

\* Character codes (ASCII) of the characters used, for std::map's key order.
CharCode(c) ==
    CASE c = "\t" -> 9   [] c = " "  -> 32  [] c = "\"" -> 34  [] c = "'" -> 39
      [] c = "("  -> 40  [] c = "+"  -> 43  [] c = "."  -> 46  [] c = "0" -> 48
      [] c = "1"  -> 49  [] c = "2"  -> 50  [] c = "3"  -> 51  [] c = "4" -> 52
      [] c = "5"  -> 53  [] c = "6"  -> 54  [] c = "7"  -> 55  [] c = "8" -> 56
      [] c = "9"  -> 57  [] c = "A"  -> 65  [] c = "C"  -> 67  [] c = "E" -> 69
      [] c = "F"  -> 70  [] c = "J"  -> 74  [] c = "P"  -> 80  [] c = "R" -> 82
      [] c = "S"  -> 83  [] c = "Z"  -> 90  [] c = "p"  -> 112 [] c = "t" -> 116
      [] c = "u"  -> 117
      [] c = "_"  -> 95  [] c = "a"  -> 97  [] c = "b"  -> 98  [] c = "c" -> 99
      [] c = "d"  -> 100 [] c = "e"  -> 101 [] c = "i"  -> 105 [] c = "l" -> 108
      [] c = "m"  -> 109 [] c = "n"  -> 110 [] c = "o"  -> 111 [] c = "r" -> 114
      [] c = "s"  -> 115 [] c = "x"  -> 120

\* std::string operator< : lexicographic on character codes.
RECURSIVE StringLess(_, _)
StringLess(a, b) ==
    IF b = << >> THEN FALSE
    ELSE IF a = << >> THEN TRUE
    ELSE IF Head(a) = Head(b) THEN StringLess(Tail(a), Tail(b))
    ELSE CharCode(Head(a)) < CharCode(Head(b))

\* The keys of a std::map in iteration order.
RECURSIVE KeysInOrder(_)
KeysInOrder(keys) ==
    IF keys = {} THEN << >>
    ELSE LET k == CHOOSE x \in keys : \A y \in keys \ {x} : StringLess(x, y)
         IN  << k >> \o KeysInOrder(keys \ {k})

\* std::to_string(size_t)
Digits == << "0", "1", "2", "3", "4", "5", "6", "7", "8", "9" >>

RECURSIVE to_string(_)
to_string(n) ==
    IF n < 10 THEN << Digits[n + 1] >>
    ELSE to_string(n \div 10) \o << Digits[(n % 10) + 1] >>

\* std::map operations
EmptyMap == << >>

MapPut(m, k, v) == [x \in (DOMAIN m) \cup {k} |-> IF x = k THEN v ELSE m[x]]

-----------------------------------------------------------------------------
(* columnType and its names. *)

columnType == { "unknown", "scale", "ordinal", "nominal", "nominalText" }

columnTypeToString(t) ==
    CASE t = "unknown"     -> << "u", "n", "k", "n", "o", "w", "n" >>
      [] t = "scale"       -> << "s", "c", "a", "l", "e" >>
      [] t = "ordinal"     -> << "o", "r", "d", "i", "n", "a", "l" >>
      [] t = "nominal"     -> << "n", "o", "m", "i", "n", "a", "l" >>
      [] t = "nominalText" -> << "n", "o", "m", "i", "n", "a", "l", "T", "e", "x", "t" >>

\* The three types setCurrentNames qualifies a data column with, in its order.
QualifyingTypes == << "scale", "ordinal", "nominal" >>

-----------------------------------------------------------------------------
(* NameTable: one encoder's tables and setCurrentNames. *)

\* A freshly constructed encoder.
NewColumnEncoder(prefix, postfix) ==
    [ _encodePrefix  |-> prefix,
      _encodePostfix |-> postfix,
      _encodingMap   |-> EmptyMap,
      _decodingMap   |-> EmptyMap,
      _decodingTypes |-> EmptyMap,
      _originalNames |-> << >>,
      _encodedNames  |-> << >>,
      _dataSetTypes  |-> EmptyMap ]

encodedNameGenerator(e, runningCounter) ==
    e._encodePrefix \o to_string(runningCounter) \o e._encodePostfix

\* The inner loop of setCurrentNames for a data column: one pass per qualifying type.
RECURSIVE QualifyLoop(_, _, _, _, _)
QualifyLoop(e, name, declared, i, runningCounter) ==
    IF i > Len(QualifyingTypes) THEN e
    ELSE
      LET colType       == QualifyingTypes[i]
          qualifiedName == name \o << "." >> \o columnTypeToString(colType)
          encodedName   == encodedNameGenerator(e, runningCounter)
          e1 == [e EXCEPT
                   !._originalNames = Append(@, qualifiedName),
                   !._encodingMap   = MapPut(@, qualifiedName, encodedName),
                   !._decodingMap   = MapPut(@, encodedName, name),
                   !._encodedNames  = Append(@, encodedName),
                   !._decodingTypes = MapPut(@, encodedName, colType)]
          e2 == IF colType = declared
                THEN [e1 EXCEPT !._encodingMap = MapPut(@, name, encodedName)]
                ELSE e1
      IN  QualifyLoop(e2, name, declared, i + 1, runningCounter + 1)

\* The outer loop of setCurrentNames over namesWithTypes in key order.
RECURSIVE NamesLoop(_, _, _, _)
NamesLoop(e, namesWithTypes, keys, runningCounter) ==
    IF keys = << >> THEN e
    ELSE
      LET name == Head(keys)
          e1   == [e EXCEPT !._originalNames = Append(@, name)]
      IN  IF namesWithTypes[name] = "unknown"
          THEN LET encodedName == encodedNameGenerator(e, runningCounter)
                   e2 == [e1 EXCEPT
                            !._encodingMap  = MapPut(@, name, encodedName),
                            !._decodingMap  = MapPut(@, encodedName, name),
                            !._encodedNames = Append(@, encodedName)]
               IN  NamesLoop(e2, namesWithTypes, Tail(keys), runningCounter + 1)
          ELSE NamesLoop(QualifyLoop(e1, name, namesWithTypes[name], 1, runningCounter),
                         namesWithTypes, Tail(keys),
                         runningCounter + Len(QualifyingTypes))

\* Whether a vector of strings is in non-increasing order of length.
BigToSmall(vec) == \A i \in 1 .. Len(vec) - 1 : Len(vec[i]) >= Len(vec[i + 1])

InsertAt(vec, i, x) == SubSeq(vec, 1, i) \o << x >> \o SubSeq(vec, i + 1, Len(vec))

\* sortVectorBigToSmall: std::sort with a comparator on size alone is not stable,
\* so the result is any arrangement of vec in non-increasing order of length.  This
\* is the set of the arrangements the call can leave in vec.
RECURSIVE sortVectorBigToSmall(_)
sortVectorBigToSmall(vec) ==
    IF vec = << >> THEN { << >> }
    ELSE LET x == Head(vec)
         IN  UNION { { InsertAt(r, i, x) : i \in { j \in 0 .. Len(r) :
                             /\ \A k \in 1 .. j : Len(r[k]) >= Len(x)
                             /\ \A k \in j + 1 .. Len(r) : Len(r[k]) <= Len(x) } }
                     : r \in sortVectorBigToSmall(Tail(vec)) }

\* setCurrentNames up to (not including) the trailing sort and invalidateAll.
setCurrentNamesTables(e, namesWithTypes) ==
    NamesLoop([e EXCEPT !._encodingMap  = EmptyMap,
                        !._decodingMap  = EmptyMap,
                        !._encodedNames = << >>,
                        !._dataSetTypes = namesWithTypes],
              namesWithTypes, KeysInOrder(DOMAIN namesWithTypes), 0)

\* One arrangement sortVectorBigToSmall can produce: the stable one.  A stored vector
\* holds this arrangement, and whoever iterates a sorted vector sees any member of
\* sortVectorBigToSmall of it, so that no outcome of the sort is left out while the
\* tables do not multiply by the orders of equal-length names.
RECURSIVE StableBigToSmall(_)
StableBigToSmall(vec) ==
    IF vec = << >> THEN << >>
    ELSE LET x    == vec[Len(vec)]
             r    == StableBigToSmall(SubSeq(vec, 1, Len(vec) - 1))
             keep == Cardinality({ k \in 1 .. Len(r) : Len(r[k]) >= Len(x) })
         IN  InsertAt(r, keep, x)

\* ColumnEncoder::setCurrentNames: the encoder object it leaves behind.
setCurrentNames(e, namesWithTypes) ==
    LET t == setCurrentNamesTables(e, namesWithTypes)
    IN  [t EXCEPT !._originalNames = StableBigToSmall(t._originalNames)]

-----------------------------------------------------------------------------
(* Inputs of the registry model. *)

a_scale == << "a", ".", "s", "c", "a", "l", "e" >>

\* Bare names a producer registers; the second is textually a qualified form of the first.
NamePool == { << "a" >>, a_scale }

\* Every namesWithTypes mapping over the pool (colTypeMap values).
NameTypeMaps == UNION { [names -> columnType] : names \in SUBSET NamePool }

\* The mappings the registry specification registers: a level a, a data column a,
\* and the levels a and b.
RegistryMaps ==
    { [n \in { << "a" >> } |-> "unknown"],
      [n \in { << "a" >> } |-> "scale"],
      [n \in { << "a" >>, << "b" >> } |-> "unknown"] }

\* Identifier prefix / postfix pairs encoders are constructed with.
PrimaryAffixes == << << "J", "_" >>, << "_", "E" >> >>

AuxAffixes == { PrimaryAffixes, << << "Z", "_" >>, << "_", "E" >> >> }

\* Object identities: the primary encoder, and the auxiliary encoders' slots.
PrimaryId == "primary"

AuxNames == << "aux1", "aux2", "aux3", "aux4" >>

AuxIds == { AuxNames[i] : i \in 1 .. MaxAux }

AuxIndex(id) == CHOOSE i \in 1 .. Len(AuxNames) : AuxNames[i] = id

GeneratedName(affixes, n) == affixes[1] \o to_string(n) \o affixes[2]

EncodeInputs ==
    { << >>, << "a" >>, << "b" >>, a_scale, << "x" >> }

DecodeInputs ==
    { << >>, << "x" >> } \cup { GeneratedName(af, n) : af \in AuxAffixes, n \in 0 .. 1 }

-----------------------------------------------------------------------------
(* Registry: the aggregate views. *)

\* The orders in which a std::set<ColumnEncoder*> can be iterated (pointer order).
RECURSIVE IterationOrders(_)
IterationOrders(set) ==
    IF set = {} THEN { << >> }
    ELSE UNION { { << x >> \o rest : rest \in IterationOrders(set \ {x}) } : x \in set }

OtherOrders == IterationOrders(IF _otherEncoders = NoSet THEN {} ELSE SetAt(_otherEncoders))

\* The merge as it would be without the map.count(key) == 0 test: the last writer wins.
FillIn_Overwrite(map, other) ==
    [k \in (DOMAIN map) \cup (DOMAIN other) |-> IF k \in DOMAIN other THEN other[k] ELSE map[k]]

\* for(keyVal : other) if(map.count(key) == 0) map[key] = value;
FillIn(map, other) ==
    [k \in (DOMAIN map) \cup (DOMAIN other) |-> IF k \in DOMAIN map THEN map[k] ELSE other[k]]

RECURSIVE MergeMaps(_, _)
MergeMaps(map, others) ==
    IF others = << >> THEN map ELSE MergeMaps(FillIn(map, Head(others)), Tail(others))

\* The map encodingMap() builds when _encodingMapInvalidated (one per iteration order).
encodingMapRebuilt ==
    { MergeMaps(encoders[_columnEncoder]._encodingMap,
                [i \in 1 .. Len(order) |-> encoders[order[i]]._encodingMap])
      : order \in OtherOrders }

decodingMapRebuilt ==
    { MergeMaps(encoders[_columnEncoder]._decodingMap,
                [i \in 1 .. Len(order) |-> encoders[order[i]]._decodingMap])
      : order \in OtherOrders }

decodingTypesRebuilt ==
    { MergeMaps(encoders[_columnEncoder]._decodingTypes,
                [i \in 1 .. Len(order) |-> encoders[order[i]]._decodingTypes])
      : order \in OtherOrders }

invalidateAll ==
    /\ _encodingMapInvalidated'   = TRUE
    /\ _decodingMapInvalidated'   = TRUE
    /\ _decodingTypeInvalidated'  = TRUE
    /\ _decoSafeMapInvalidated'   = TRUE
    /\ _originalNamesInvalidated' = TRUE
    /\ _encodedNamesInvalidated'  = TRUE

cacheVars == << encodingMap_map, decodingMap_map, decodingTypes_map,
                decodingMapSafeHtml_map, originalNames_vec, encodedNames_vec >>

\* Dereferencing the null _columnEncoder or _otherEncoders: the process dies.
NullDereference ==
    /\ crashed' = TRUE
    /\ UNCHANGED << _columnEncoder, _otherEncoders, encoders, flagVars, cacheVars, nSetNames >>

\* The variables each aggregate view owns, and the rest of the registry.
registryCore == << _columnEncoder, _otherEncoders, encoders, crashed, nSetNames >>

encodingMapView == << encodingMap_map, _encodingMapInvalidated >>

decodingMapView == << decodingMap_map, _decodingMapInvalidated >>

decodingTypesView == << decodingTypes_map, _decodingTypeInvalidated >>

decodingMapSafeHtmlView == << decodingMapSafeHtml_map, _decoSafeMapInvalidated >>

originalNamesView == << originalNames_vec, _originalNamesInvalidated >>

encodedNamesView == << encodedNames_vec, _encodedNamesInvalidated >>

\* ColumnEncoder::encodingMap(): rebuilds the static map when invalidated; `map` is
\* the reference it returns.
encodingMap(map) ==
    IF _encodingMapInvalidated
    THEN /\ _columnEncoder # NULL
         /\ map \in encodingMapRebuilt
         /\ encodingMap_map' = map
         /\ _encodingMapInvalidated' = FALSE
    ELSE /\ map = encodingMap_map
         /\ UNCHANGED encodingMapView

\* ColumnEncoder::decodingMap()
decodingMap(map) ==
    IF _decodingMapInvalidated
    THEN /\ _columnEncoder # NULL
         /\ map \in decodingMapRebuilt
         /\ decodingMap_map' = map
         /\ _decodingMapInvalidated' = FALSE
    ELSE /\ map = decodingMap_map
         /\ UNCHANGED decodingMapView

\* ColumnEncoder::decodingTypes()
decodingTypes(map) ==
    IF _decodingTypeInvalidated
    THEN /\ _columnEncoder # NULL
         /\ map \in decodingTypesRebuilt
         /\ decodingTypes_map' = map
         /\ _decodingTypeInvalidated' = FALSE
    ELSE /\ map = decodingTypes_map
         /\ UNCHANGED decodingTypesView

\* The vector originalNames() builds when _originalNamesInvalidated, before its sort.
RECURSIVE Concat(_)
Concat(vecs) == IF vecs = << >> THEN << >> ELSE Head(vecs) \o Concat(Tail(vecs))

originalNamesRebuilt ==
    { encoders[_columnEncoder]._originalNames
        \o Concat([i \in 1 .. Len(order) |-> encoders[order[i]]._originalNames])
      : order \in OtherOrders }

\* What originalNames() can return in this state: the static vector, rebuilt when
\* invalidated, and sorted on every call.
originalNamesReturned ==
    IF _originalNamesInvalidated
    THEN UNION { sortVectorBigToSmall(vec) : vec \in originalNamesRebuilt }
    ELSE sortVectorBigToSmall(originalNames_vec)

\* ColumnEncoder::originalNames(); `vec` is the reference it returns.
originalNames(vec) ==
    /\ _originalNamesInvalidated => _columnEncoder # NULL
    /\ vec \in originalNamesReturned
    /\ originalNames_vec' = vec
    /\ _originalNamesInvalidated' = FALSE

\* The vector encodedNames() builds when _encodedNamesInvalidated, before its sort.
encodedNamesRebuilt ==
    { encoders[_columnEncoder]._encodedNames
        \o Concat([i \in 1 .. Len(order) |-> encoders[order[i]]._encodedNames])
      : order \in OtherOrders }

encodedNamesReturned ==
    IF _encodedNamesInvalidated
    THEN UNION { sortVectorBigToSmall(vec) : vec \in encodedNamesRebuilt }
    ELSE sortVectorBigToSmall(encodedNames_vec)

\* ColumnEncoder::encodedNames(); `vec` is the reference it returns.
encodedNames(vec) ==
    /\ _encodedNamesInvalidated => _columnEncoder # NULL
    /\ vec \in encodedNamesReturned
    /\ encodedNames_vec' = vec
    /\ _encodedNamesInvalidated' = FALSE

-----------------------------------------------------------------------------
(* Registry: the operations. *)

\* ColumnEncoder::columnEncoder(): the primary encoder is created on first request.
columnEncoder ==
    /\ ~crashed
    /\ _columnEncoder = NULL
    /\ _columnEncoder' = PrimaryId
    /\ encoders' = (PrimaryId :> NewColumnEncoder(PrimaryAffixes[1], PrimaryAffixes[2])) @@ encoders
    /\ UNCHANGED << _otherEncoders, flagVars, cacheVars, crashed, nSetNames >>

\* ColumnEncoder::ColumnEncoder(prefix, postfix): an auxiliary encoder registers itself;
\* ids are the objects that can be allocated.
ColumnEncoderCtorOf(ids) ==
    /\ ~crashed
    /\ \E affixes \in AuxAffixes :
       \E this \in { i \in ids \ DOMAIN encoders :
                        \A j \in ids \ DOMAIN encoders : AuxIndex(i) <= AuxIndex(j) } :
          /\ encoders' = (this :> NewColumnEncoder(affixes[1], affixes[2])) @@ encoders
          /\ IF _otherEncoders = NoSet
             THEN /\ _otherEncoders' = NewSet({ this })
                  /\ invalidateAll
             ELSE /\ _otherEncoders' = NewSet(SetAt(_otherEncoders) \cup { this })
                  /\ UNCHANGED flagVars
    /\ UNCHANGED << _columnEncoder, cacheVars, crashed, nSetNames >>

ColumnEncoderCtor == ColumnEncoderCtorOf(AuxIds)

\* ColumnEncoder::setCurrentNames on a live encoder, with a mapping out of `maps`.
SetCurrentNames(maps) ==
    /\ ~crashed
    /\ nSetNames < MaxSetNames
    /\ \E this \in DOMAIN encoders, namesWithTypes \in maps :
          encoders' = [encoders EXCEPT ![this] = setCurrentNames(encoders[this], namesWithTypes)]
    /\ invalidateAll
    /\ nSetNames' = nSetNames + 1
    /\ UNCHANGED << _columnEncoder, _otherEncoders, cacheVars, crashed >>

Without(f, x) == [y \in (DOMAIN f) \ {x} |-> f[y]]

\* ColumnEncoder::~ColumnEncoder of an auxiliary encoder.
DestroyOther ==
    /\ ~crashed
    /\ \E this \in (DOMAIN encoders) \ { _columnEncoder } :
          /\ encoders' = Without(encoders, this)
          /\ _otherEncoders' = IF _otherEncoders # NoSet /\ this \in SetAt(_otherEncoders)
                               THEN NewSet(SetAt(_otherEncoders) \ { this })
                               ELSE _otherEncoders
    /\ UNCHANGED << _columnEncoder, flagVars, cacheVars, crashed, nSetNames >>

\* The destructor as it would be without the loop that deletes the other encoders.
DestroyPrimary_NoCascade ==
    /\ ~crashed
    /\ _columnEncoder # NULL
    /\ _otherEncoders # NoSet
    /\ _columnEncoder' = NULL
    /\ encoders' = Without(encoders, _columnEncoder)
    /\ _otherEncoders' = NoSet
    /\ invalidateAll
    /\ UNCHANGED << crashed, cacheVars, nSetNames >>

\* ColumnEncoder::~ColumnEncoder of the primary encoder: every other encoder is deleted
\* too (each erases itself from the set), then the set itself.
DestroyPrimary ==
    /\ ~crashed
    /\ _columnEncoder # NULL
    /\ IF _otherEncoders = NoSet
       THEN \* ColumnEncoders others = *_otherEncoders; with _otherEncoders == nullptr
            /\ crashed' = TRUE
            /\ _columnEncoder' = NULL
            /\ UNCHANGED << _otherEncoders, encoders, flagVars >>
       ELSE /\ _columnEncoder' = NULL
            /\ encoders' = [id \in (DOMAIN encoders) \ ({ _columnEncoder } \cup SetAt(_otherEncoders))
                              |-> encoders[id]]
            /\ _otherEncoders' = NoSet
            /\ invalidateAll
            /\ UNCHANGED crashed
    /\ UNCHANGED << cacheVars, nSetNames >>

\* A read of the merged encode map (encodingMap() called from any of its users).
ReadEncodingMap ==
    /\ ~crashed
    /\ IF _encodingMapInvalidated /\ _columnEncoder = NULL
       THEN NullDereference
       ELSE /\ \E map \in encodingMapRebuilt \cup { encodingMap_map } : encodingMap(map)
            /\ UNCHANGED << registryCore, decodingMapView, decodingTypesView,
                            decodingMapSafeHtmlView, originalNamesView, encodedNamesView >>

ReadDecodingMap ==
    /\ ~crashed
    /\ IF _decodingMapInvalidated /\ _columnEncoder = NULL
       THEN NullDereference
       ELSE /\ \E map \in decodingMapRebuilt \cup { decodingMap_map } : decodingMap(map)
            /\ UNCHANGED << registryCore, encodingMapView, decodingTypesView,
                            decodingMapSafeHtmlView, originalNamesView, encodedNamesView >>

ReadDecodingTypes ==
    /\ ~crashed
    /\ IF _decodingTypeInvalidated /\ _columnEncoder = NULL
       THEN NullDereference
       ELSE /\ \E map \in decodingTypesRebuilt \cup { decodingTypes_map } : decodingTypes(map)
            /\ UNCHANGED << registryCore, encodingMapView, decodingMapView,
                            decodingMapSafeHtmlView, originalNamesView, encodedNamesView >>

-----------------------------------------------------------------------------
(* encode, decode and columnTypeFromEncoded. *)

Returned(value) == [outcome |-> "returned", out |-> value]

Threw == [outcome |-> "threw", out |-> << >>]

\* encode as it would be if an absent name were passed through instead of refused.
encode_PassThrough(in, map) ==
    IF in = << >> \/ in \notin DOMAIN map THEN Returned(in) ELSE Returned(map[in])

\* ColumnEncoder::encode, given the map encodingMap() returns.
encode(in, map) ==
    IF in = << >> THEN Returned(<< >>)
    ELSE IF in \notin DOMAIN map THEN Threw
    ELSE Returned(map[in])

\* ColumnEncoder::decode, given the map decodingMap() returns.
decode(in, map) ==
    IF in = << >> THEN Returned(<< >>)
    ELSE IF in \notin DOMAIN map THEN Threw
    ELSE Returned(map[in])

\* ColumnEncoder::columnTypeFromEncoded, given the map decodingTypes() returns.
columnTypeFromEncoded(in, map) ==
    IF in = << >> \/ in \notin DOMAIN map THEN "unknown" ELSE map[in]

CallRecord(op, in, result) ==
    [op |-> op, in |-> in, outcome |-> result.outcome, out |-> result.out]

\* A call of encode(in) on a live encoder.
Encode ==
    /\ ~crashed
    /\ DOMAIN encoders # {}
    /\ \E in \in EncodeInputs :
          IF in = << >>
          THEN /\ call' = CallRecord("encode", in, encode(in, EmptyMap))
               /\ UNCHANGED registryVars
          ELSE IF _encodingMapInvalidated /\ _columnEncoder = NULL
          THEN /\ NullDereference
               /\ call' = [op |-> "encode", in |-> in, outcome |-> "crashed", out |-> << >>]
          ELSE \E map \in encodingMapRebuilt \cup { encodingMap_map } :
                 /\ encodingMap(map)
                 /\ call' = CallRecord("encode", in, encode(in, map))
                 /\ UNCHANGED << registryCore, decodingMapView, decodingTypesView,
                                 decodingMapSafeHtmlView, originalNamesView, encodedNamesView >>

\* A call of decode(in) on a live encoder.
Decode ==
    /\ ~crashed
    /\ DOMAIN encoders # {}
    /\ \E in \in DecodeInputs :
          IF in = << >>
          THEN /\ call' = CallRecord("decode", in, decode(in, EmptyMap))
               /\ UNCHANGED registryVars
          ELSE IF _decodingMapInvalidated /\ _columnEncoder = NULL
          THEN /\ NullDereference
               /\ call' = [op |-> "decode", in |-> in, outcome |-> "crashed", out |-> << >>]
          ELSE \E map \in decodingMapRebuilt \cup { decodingMap_map } :
                 /\ decodingMap(map)
                 /\ call' = CallRecord("decode", in, decode(in, map))
                 /\ UNCHANGED << registryCore, encodingMapView, decodingTypesView,
                                 decodingMapSafeHtmlView, originalNamesView, encodedNamesView >>

\* A call of columnTypeFromEncoded(in) on a live encoder.
ColumnTypeFromEncoded ==
    /\ ~crashed
    /\ DOMAIN encoders # {}
    /\ \E in \in DecodeInputs :
          IF in = << >>
          THEN /\ call' = CallRecord("columnTypeFromEncoded", in,
                                     Returned(columnTypeFromEncoded(in, EmptyMap)))
               /\ UNCHANGED registryVars
          ELSE IF _decodingTypeInvalidated /\ _columnEncoder = NULL
          THEN /\ NullDereference
               /\ call' = [op |-> "columnTypeFromEncoded", in |-> in,
                           outcome |-> "crashed", out |-> << >>]
          ELSE \E map \in decodingTypesRebuilt \cup { decodingTypes_map } :
                 /\ decodingTypes(map)
                 /\ call' = CallRecord("columnTypeFromEncoded", in,
                                       Returned(columnTypeFromEncoded(in, map)))
                 /\ UNCHANGED << registryCore, encodingMapView, decodingMapView,
                                 decodingMapSafeHtmlView, originalNamesView, encodedNamesView >>

-----------------------------------------------------------------------------
(* The registry specification. *)

NoCall == [op |-> "none", in |-> << >>, outcome |-> "none", out |-> << >>]

NoScript == [op |-> "none", out |-> << >>]

NoJson == [doc |-> [type |-> "nullValue"], replaceNames |-> FALSE, replaceStrict |-> FALSE]

RegistryInit ==
    /\ _columnEncoder = NULL
    /\ _otherEncoders = NoSet
    /\ encoders = << >>
    /\ _encodingMapInvalidated = TRUE
    /\ _decodingMapInvalidated = TRUE
    /\ _decodingTypeInvalidated = TRUE
    /\ _decoSafeMapInvalidated = TRUE
    /\ _originalNamesInvalidated = TRUE
    /\ _encodedNamesInvalidated = TRUE
    /\ encodingMap_map = EmptyMap
    /\ decodingMap_map = EmptyMap
    /\ decodingTypes_map = EmptyMap
    /\ decodingMapSafeHtml_map = EmptyMap
    /\ originalNames_vec = << >>
    /\ encodedNames_vec = << >>
    /\ crashed = FALSE
    /\ nSetNames = 0

Init ==
    /\ RegistryInit
    /\ call = NoCall
    /\ text = << >>
    /\ mandatoryPrefix = << >>
    /\ script = NoScript
    /\ json = NoJson
    /\ changedNames = EmptyMap

Next ==
    \/ columnEncoder /\ UNCHANGED << call, scriptVars >>
    \/ ColumnEncoderCtor /\ UNCHANGED << call, scriptVars >>
    \/ SetCurrentNames(RegistryMaps) /\ UNCHANGED << call, scriptVars >>
    \/ DestroyOther /\ UNCHANGED << call, scriptVars >>
    \/ DestroyPrimary /\ UNCHANGED << call, scriptVars >>
    \/ ReadEncodingMap /\ UNCHANGED << call, scriptVars >>
    \/ ReadDecodingMap /\ UNCHANGED << call, scriptVars >>
    \/ ReadDecodingTypes /\ UNCHANGED << call, scriptVars >>

Spec == Init /\ [][Next]_vars

-----------------------------------------------------------------------------
(* The name-table specification: the primary encoder alone, every mapping of   *)
(* NameTypeMaps registered in any sequence, and the three merged maps read.    *)

NextNames ==
    \/ columnEncoder /\ UNCHANGED << call, scriptVars >>
    \/ SetCurrentNames(NameTypeMaps) /\ UNCHANGED << call, scriptVars >>
    \/ ReadEncodingMap /\ UNCHANGED << call, scriptVars >>
    \/ ReadDecodingMap /\ UNCHANGED << call, scriptVars >>
    \/ ReadDecodingTypes /\ UNCHANGED << call, scriptVars >>

SpecNames == Init /\ [][NextNames]_vars

-----------------------------------------------------------------------------
(* The call specification: encode, decode and columnTypeFromEncoded called on  *)
(* a registry holding the primary encoder with names registered and, or not,   *)
(* one auxiliary encoder with names registered.                                *)

CallRegistry(primaryNames, others, aux) ==
    /\ _columnEncoder = PrimaryId
    /\ _otherEncoders = others
    /\ encoders = aux @@ (PrimaryId :> setCurrentNames(
                              NewColumnEncoder(PrimaryAffixes[1], PrimaryAffixes[2]), primaryNames))
    /\ _encodingMapInvalidated = TRUE
    /\ _decodingMapInvalidated = TRUE
    /\ _decodingTypeInvalidated = TRUE
    /\ _decoSafeMapInvalidated = TRUE
    /\ _originalNamesInvalidated = TRUE
    /\ _encodedNamesInvalidated = TRUE
    /\ encodingMap_map = EmptyMap
    /\ decodingMap_map = EmptyMap
    /\ decodingTypes_map = EmptyMap
    /\ decodingMapSafeHtml_map = EmptyMap
    /\ originalNames_vec = << >>
    /\ encodedNames_vec = << >>
    /\ crashed = FALSE
    /\ nSetNames = 1 + Cardinality(DOMAIN aux)

InitCalls ==
    /\ \E primaryNames \in RegistryMaps :
          \/ CallRegistry(primaryNames, NoSet, << >>)
          \/ \E affixes \in AuxAffixes, auxNames \in RegistryMaps :
                CallRegistry(primaryNames, NewSet({ AuxNames[1] }),
                             AuxNames[1] :> setCurrentNames(
                                 NewColumnEncoder(affixes[1], affixes[2]), auxNames))
    /\ call = NoCall
    /\ text = << >>
    /\ mandatoryPrefix = << >>
    /\ script = NoScript
    /\ json = NoJson
    /\ changedNames = EmptyMap

NextCalls ==
    \/ Encode /\ UNCHANGED scriptVars
    \/ Decode /\ UNCHANGED scriptVars
    \/ ColumnTypeFromEncoded /\ UNCHANGED scriptVars

SpecCalls == InitCalls /\ [][NextCalls]_vars

-----------------------------------------------------------------------------
(* Claims about the name tables and the registry. *)

Primary == encoders[PrimaryId]

PrimaryAlive == ~crashed /\ _columnEncoder # NULL

Others == IF _otherEncoders = NoSet THEN {} ELSE SetAt(_otherEncoders)

\* What a read of each merged map returns in the current state.
EncodingMapViews == IF _encodingMapInvalidated THEN encodingMapRebuilt ELSE { encodingMap_map }

DecodingMapViews == IF _decodingMapInvalidated THEN decodingMapRebuilt ELSE { decodingMap_map }

DecodingTypesViews == IF _decodingTypeInvalidated THEN decodingTypesRebuilt ELSE { decodingTypes_map }

Qualified(name, type) == name \o << "." >> \o columnTypeToString(type)

\* The entries of the primary's last setCurrentNames whose declared type is known.
DataColumns == { n \in DOMAIN Primary._dataSetTypes : Primary._dataSetTypes[n] # "unknown" }

\* C1: round trip.  After setNames(S) on the primary encoder, for every entry n of S
\* with a known declared type and each t of scale, ordinal, nominal:
\* decode(encode(n.t)) = n and typeOf(encode(n.t)) = t, whatever else S registers.
C1_RoundTrip ==
    PrimaryAlive =>
      \A n \in DataColumns : \A i \in 1 .. Len(QualifyingTypes) :
        \A em \in EncodingMapViews, dm \in DecodingMapViews, tm \in DecodingTypesViews :
          LET t  == QualifyingTypes[i]
              id == encode(Qualified(n, t), em)
          IN  /\ id.outcome = "returned"
              /\ decode(id.out, dm) = Returned(n)
              /\ columnTypeFromEncoded(id.out, tm) = t

\* C2: bare-name default binding.  After setNames(S), for every entry (n, t) of S with
\* t any columnType other than unknown, n is a key of the encode map and
\* encode(n) = encode(n.t).
C2_BareNameDefault ==
    PrimaryAlive =>
      \A n \in DataColumns : \A em \in EncodingMapViews :
          /\ n \in DOMAIN em
          /\ encode(n, em).outcome = "returned"
          /\ encode(n, em) = encode(Qualified(n, Primary._dataSetTypes[n]), em)

\* C3: encode("") returns "" without error; encode of a non-empty name returns the
\* merged encode map's value when the name is a key and fails (NotAColumnName) exactly
\* when it is not; decode is the same over the merged decode map (NotAnEncodedName);
\* a failing call changes no encoder table.
C3_EncodeDecodeErrors ==
    [][ /\ call'.op = "encode" =>
             /\ call'.in = << >> => call'.outcome = "returned" /\ call'.out = << >>
                                    /\ encodingMap_map' = encodingMap_map
             /\ call'.in # << >> =>
                  /\ encodingMap_map' \in EncodingMapViews
                  /\ call'.in \in DOMAIN encodingMap_map' =>
                        call'.outcome = "returned" /\ call'.out = encodingMap_map'[call'.in]
                  /\ call'.in \notin DOMAIN encodingMap_map' => call'.outcome = "threw"
        /\ call'.op = "decode" =>
             /\ call'.in = << >> => call'.outcome = "returned" /\ call'.out = << >>
                                    /\ decodingMap_map' = decodingMap_map
             /\ call'.in # << >> =>
                  /\ decodingMap_map' \in DecodingMapViews
                  /\ call'.in \in DOMAIN decodingMap_map' =>
                        call'.outcome = "returned" /\ call'.out = decodingMap_map'[call'.in]
                  /\ call'.in \notin DOMAIN decodingMap_map' => call'.outcome = "threw"
        /\ call'.outcome = "threw" => encoders' = encoders ]_vars

\* C3 happens: with an auxiliary encoder registered, encode of a name that is no key
\* has failed, after the merged map was built from both encoders.
C3_Witness ==
    /\ call.op = "encode"
    /\ call.outcome = "threw"
    /\ call.in # << >>
    /\ Others # {}
    /\ ~_encodingMapInvalidated
    /\ DOMAIN encodingMap_map # DOMAIN Primary._encodingMap

\* A merged map in which the primary's entries win and the other keys come from an
\* auxiliary encoder that has them.
PrimaryWins(merged, own, otherMaps) ==
    /\ DOMAIN merged = (DOMAIN own) \cup UNION { DOMAIN m : m \in otherMaps }
    /\ \A k \in DOMAIN own : merged[k] = own[k]
    /\ \A k \in (DOMAIN merged) \ (DOMAIN own) :
          \E m \in otherMaps : k \in DOMAIN m /\ merged[k] = m[k]

\* C10: whenever the merged encode map (likewise the merged decode and type maps) is
\* rebuilt, every key of the primary maps to the primary's value, and a key is taken
\* from an auxiliary encoder only if the primary has no such key.
C10_PrimaryWins ==
    [][ /\ (_encodingMapInvalidated /\ ~_encodingMapInvalidated') =>
              PrimaryWins(encodingMap_map', Primary._encodingMap,
                          { encoders[o]._encodingMap : o \in Others })
        /\ (_decodingMapInvalidated /\ ~_decodingMapInvalidated') =>
              PrimaryWins(decodingMap_map', Primary._decodingMap,
                          { encoders[o]._decodingMap : o \in Others })
        /\ (_decodingTypeInvalidated /\ ~_decodingTypeInvalidated') =>
              PrimaryWins(decodingTypes_map', Primary._decodingTypes,
                          { encoders[o]._decodingTypes : o \in Others }) ]_vars

\* C10 happens: the primary maps a to X, an auxiliary maps a to Z and b to Y, and the
\* rebuilt merged encode map holds a -> X and b -> Y.
C10_Witness ==
    /\ PrimaryAlive
    /\ ~_encodingMapInvalidated
    /\ \E o \in Others :
          /\ o \in DOMAIN encoders
          /\ << "a" >> \in DOMAIN Primary._encodingMap
          /\ << "b" >> \notin DOMAIN Primary._encodingMap
          /\ { << "a" >>, << "b" >> } \subseteq DOMAIN encoders[o]._encodingMap
          /\ encoders[o]._encodingMap[<< "a" >>] # Primary._encodingMap[<< "a" >>]
          /\ encodingMap_map = FillIn(Primary._encodingMap, encoders[o]._encodingMap)
          /\ encodingMap_map[<< "a" >>] = Primary._encodingMap[<< "a" >>]
          /\ encodingMap_map[<< "b" >>] = encoders[o]._encodingMap[<< "b" >>]


-----------------------------------------------------------------------------
(* Script text: encodeRScript and replaceAll.  A script is carried as a record *)
(* of its text, the set of names found and, for stating properties, the        *)
(* input offset each character came from (-1 for inserted characters) and the  *)
(* list of replacements made.                                                  *)

\* static std::regex nonNameChar("[^\\.A-Za-z0-9_]")
nonNameChar(c) ==
    LET code == CharCode(c)
    IN  ~ \/ code = 46
          \/ code \in 65 .. 90
          \/ code \in 97 .. 122
          \/ code \in 48 .. 57
          \/ code = 95

\* The lambda that accepts every position, i.e. no test of the character in front.
testNonNameChar_Always(txt, pos) == TRUE

\* auto testNonNameChar: the character in front of pos is not a name character.
testNonNameChar(txt, pos) == pos = 0 \/ nonNameChar(txt[pos])

\* The lambda without the test of the character in front of the prefix.
testFreePrefix_AnyFront(txt, pos, prefix) ==
    /\ prefix # << >>
    /\ pos >= Len(prefix)
    /\ substr(txt, pos - Len(prefix), Len(prefix)) = prefix

\* auto testFreePrefix: pos - length wraps around when pos < length, substr throws
\* std::out_of_range, the catch swallows it and false is returned.
testFreePrefix(txt, pos, prefix) ==
    IF prefix = << >> THEN FALSE
    ELSE IF pos < Len(prefix) THEN FALSE
    ELSE IF substr(txt, pos - Len(prefix), Len(prefix)) = prefix
         THEN testNonNameChar(txt, pos - Len(prefix))
         ELSE FALSE

\* The for loop of testEndFree, entered with endIsFree true: false at a "(" reached
\* over spaces and tabs only, true at anything else or at the end of the text.
RECURSIVE bracePosLoop(_, _)
bracePosLoop(txt, bracePos) ==
    IF ~(bracePos < Len(txt)) THEN TRUE
    ELSE IF txt[bracePos + 1] = "(" THEN FALSE
    ELSE IF txt[bracePos + 1] # "\t" /\ txt[bracePos + 1] # " " THEN TRUE
    ELSE bracePosLoop(txt, bracePos + 1)

\* The lambda as it would be if a following "(" did not matter.
testEndFree_NoBrace(txt, pos) == pos = Len(txt) \/ nonNameChar(txt[pos + 1])

\* auto testEndFree
testEndFree(txt, pos) ==
    LET endIsFree == pos = Len(txt) \/ nonNameChar(txt[pos + 1])
    IN  IF endIsFree THEN bracePosLoop(txt, pos) ELSE FALSE

\* The for loop of getPositionsColumnNameMatches from pos on.
RECURSIVE positionsLoop(_, _, _, _, _)
positionsLoop(txt, columnName, pos, inString, delim) ==
    IF ~(pos < Len(txt)) THEN << >>
    ELSE IF ~inString /\ substr(txt, pos, Len(columnName)) = columnName
         THEN << pos >> \o positionsLoop(txt, columnName, pos + 1, inString, delim)
    ELSE IF txt[pos + 1] = "\"" \/ txt[pos + 1] = "'"
         THEN IF ~inString
              THEN positionsLoop(txt, columnName, pos + 1, TRUE, txt[pos + 1])
              ELSE IF txt[pos + 1] = delim
                   THEN positionsLoop(txt, columnName, pos + 1, FALSE, delim)
                   ELSE positionsLoop(txt, columnName, pos + 1, inString, delim)
    ELSE positionsLoop(txt, columnName, pos + 1, inString, delim)

getPositionsColumnNameMatches(txt, columnName) ==
    positionsLoop(txt, columnName, 0, FALSE, "?")

\* std::reverse
reverse(vec) == [i \in 1 .. Len(vec) |-> vec[Len(vec) + 1 - i]]

\* A script as it enters encodeRScript.
ScriptOf(txt) ==
    [ text    |-> txt,
      origin  |-> [i \in 1 .. Len(txt) |-> i - 1],
      found   |-> {},
      log     |-> << >>,
      outcome |-> "returned" ]

\* The input offset of the occurrence of length len at pos, when all its characters
\* are characters of the input that were adjacent there; -1 otherwise.
OriginOf(st, pos, len) ==
    IF /\ len > 0
       /\ pos + len <= Len(st.origin)
       /\ st.origin[pos + 1] >= 0
       /\ \A k \in 1 .. len : st.origin[pos + k] = st.origin[pos + 1] + k - 1
    THEN st.origin[pos + 1]
    ELSE -1

\* text.replace(foundPos, oldCol.length(), newCol); columnNamesFound->insert(oldCol);
Replaced(st, oldCol, newCol, foundPos, prefix) ==
    LET after == replace(st.text, foundPos, Len(oldCol), newCol)
    IN  [ st EXCEPT
            !.text   = after,
            !.origin = replace(st.origin, foundPos, Len(oldCol), [i \in 1 .. Len(newCol) |-> -1]),
            !.found  = st.found \cup { oldCol },
            !.log    = Append(st.log, [ name   |-> oldCol,
                                        pos    |-> foundPos,
                                        before |-> st.text,
                                        after  |-> after,
                                        origin |-> OriginOf(st, foundPos, Len(oldCol)),
                                        prefix |-> prefix ]) ]

\* for (size_t foundPos : foundColPositions) of encodeRScript
RECURSIVE foundColPositionsLoop(_, _, _, _, _)
foundColPositionsLoop(st, oldCol, newCol, foundColPositions, prefix) ==
    IF foundColPositions = << >> THEN st
    ELSE LET foundPos      == Head(foundColPositions)
             foundPosEnd   == foundPos + Len(oldCol)
             hasFreePrefix == testFreePrefix(st.text, foundPos, prefix)
             startIsFree   == hasFreePrefix \/ testNonNameChar(st.text, foundPos)
             endIsFree     == testEndFree(st.text, foundPosEnd)
             next          == IF prefix # << >> /\ ~hasFreePrefix THEN st
                              ELSE IF startIsFree /\ endIsFree
                                   THEN Replaced(st, oldCol, newCol, foundPos, prefix)
                                   ELSE st
         IN  foundColPositionsLoop(next, oldCol, newCol, Tail(foundColPositions), prefix)

\* for(const std::string & oldCol : names) of encodeRScript; map.at throws
\* std::out_of_range for a name that is no key.
RECURSIVE oldColLoop(_, _, _, _)
oldColLoop(st, map, names, prefix) ==
    IF names = << >> THEN st
    ELSE LET oldCol == Head(names)
         IN  IF oldCol \notin DOMAIN map THEN [st EXCEPT !.outcome = "threw"]
             ELSE oldColLoop(
                      foundColPositionsLoop(st, oldCol, map[oldCol],
                          reverse(getPositionsColumnNameMatches(st.text, oldCol)), prefix),
                      map, Tail(names), prefix)

\* encodeRScript(text, map, names, columnNamesFound, mandatoryPrefix)
encodeRScript(st, map, names, prefix) ==
    oldColLoop([st EXCEPT !.found = {}], map, names, prefix)

\* The prefixes as they would be without the empty prefix put first.
sortPrefixes_NoEmpty(allowedPrefixes) ==
    { v \in IterationOrders(allowedPrefixes) :
        \A i \in 1 .. Len(v) - 1 : Len(v[i]) <= Len(v[i + 1]) }

\* std::sort of the prefixes by size: any arrangement of non-decreasing size;
\* then the empty prefix is put first.
sortPrefixes(allowedPrefixes) ==
    { << << >> >> \o vec : vec \in
        { v \in IterationOrders(allowedPrefixes) :
            \A i \in 1 .. Len(v) - 1 : Len(v[i]) <= Len(v[i + 1]) } }

\* for(auto& prefix : prefixes) of the overload taking allowedPrefixes; std::map::insert
\* keeps the bucket already there.
RECURSIVE prefixLoop(_, _, _, _, _)
prefixLoop(st, prefixedColumnsFound, map, namesPerCall, prefixes) ==
    IF prefixes = << >> \/ st.outcome = "threw"
    THEN [ text |-> st.text, origin |-> st.origin, found |-> st.found, log |-> st.log,
           outcome |-> st.outcome, prefixedColumnsFound |-> prefixedColumnsFound ]
    ELSE LET prefix == Head(prefixes)
             done   == encodeRScript(st, map, Head(namesPerCall), prefix)
             insert == IF prefix \in DOMAIN prefixedColumnsFound \/ done.outcome = "threw"
                       THEN prefixedColumnsFound
                       ELSE MapPut(prefixedColumnsFound, prefix, done.found)
         IN  prefixLoop(done, insert, map, Tail(namesPerCall), Tail(prefixes))

\* encodeRScript(text, prefixedColumnsFound, allowedPrefixes), with the vector each
\* call of originalNames() returned.
encodeRScript_allowedPrefixes(txt, map, namesPerCall, prefixes) ==
    prefixLoop(ScriptOf(txt), EmptyMap, map, namesPerCall, prefixes)

NothingFound == [firstFoundPos |-> npos, replaceThis |-> << >>]

\* The loop as it would be with pos <= firstFoundPos: the last name in the list wins.
RECURSIVE replaceMeLoop_LastWins(_, _, _, _)
replaceMeLoop_LastWins(txt, names, foundPos, first) ==
    IF names = << >> THEN first
    ELSE LET pos == find(txt, Head(names), foundPos)
         IN  replaceMeLoop_LastWins(txt, Tail(names), foundPos,
                 IF pos <= first.firstFoundPos /\ pos # npos
                 THEN [firstFoundPos |-> pos, replaceThis |-> Head(names)]
                 ELSE first)

\* for(const std::string & replaceMe : names) of replaceAll
RECURSIVE replaceMeLoop(_, _, _, _)
replaceMeLoop(txt, names, foundPos, first) ==
    IF names = << >> THEN first
    ELSE LET pos == find(txt, Head(names), foundPos)
         IN  replaceMeLoop(txt, Tail(names), foundPos,
                 IF pos < first.firstFoundPos
                 THEN [firstFoundPos |-> pos, replaceThis |-> Head(names)]
                 ELSE first)

\* while(foundPos < std::string::npos) of replaceAll; steps lists the replacements.
RECURSIVE replaceAllLoop(_, _, _, _, _)
replaceAllLoop(txt, foundPos, map, names, steps) ==
    IF ~(foundPos < npos) THEN [outcome |-> "returned", out |-> txt, steps |-> steps]
    ELSE LET first == replaceMeLoop(txt, names, foundPos, NothingFound)
         IN  IF first.firstFoundPos # npos
             THEN IF first.replaceThis \notin DOMAIN map
                  THEN [outcome |-> "threw", out |-> << >>, steps |-> steps]
                  ELSE LET replacement == map[first.replaceThis]
                       IN  replaceAllLoop(
                               replace(txt, first.firstFoundPos, Len(first.replaceThis), replacement),
                               first.firstFoundPos + Len(replacement), map, names,
                               Append(steps, [ text          |-> txt,
                                               foundPos      |-> foundPos,
                                               firstFoundPos |-> first.firstFoundPos,
                                               replaceThis   |-> first.replaceThis ]))
             ELSE replaceAllLoop(txt, npos, map, names, steps)

replaceAll(txt, map, names) == replaceAllLoop(txt, 0, map, names, << >>)

-----------------------------------------------------------------------------
(* Script text: the operations. *)

otherViews == << decodingMapView, decodingTypesView, decodingMapSafeHtmlView, encodedNamesView >>

ScriptCrashed(op) == [op |-> op, outcome |-> "crashed"]

ScriptRecord(op, st) ==
    [ op |-> op, outcome |-> st.outcome, out |-> st.text, origin |-> st.origin,
      found |-> st.found, log |-> st.log ]

\* encodeRScript(text, columnNamesFound): the encode map, the names, no prefix.
EncodeRScript ==
    /\ ~crashed
    /\ script.op = "none"
    /\ IF (_encodingMapInvalidated \/ _originalNamesInvalidated) /\ _columnEncoder = NULL
       THEN /\ NullDereference
            /\ script' = ScriptCrashed("encodeRScript")
       ELSE \E map \in EncodingMapViews, names \in originalNamesReturned :
              /\ encodingMap(map)
              /\ originalNames(names)
              /\ script' = ScriptRecord("encodeRScript",
                                        encodeRScript(ScriptOf(text), map, names, << >>))
              /\ UNCHANGED << registryCore, otherViews >>
    /\ UNCHANGED << call, text, mandatoryPrefix, json, changedNames >>

\* encodeRScript(text, encodingMap(), originalNames(), columnNamesFound, mandatoryPrefix)
EncodeRScriptMandatoryPrefix ==
    /\ ~crashed
    /\ script.op = "none"
    /\ IF (_encodingMapInvalidated \/ _originalNamesInvalidated) /\ _columnEncoder = NULL
       THEN /\ NullDereference
            /\ script' = ScriptCrashed("encodeRScript")
       ELSE \E map \in EncodingMapViews, names \in originalNamesReturned :
              /\ encodingMap(map)
              /\ originalNames(names)
              /\ script' = ScriptRecord("encodeRScript",
                                        encodeRScript(ScriptOf(text), map, names, mandatoryPrefix))
              /\ UNCHANGED << registryCore, otherViews >>
    /\ UNCHANGED << call, text, mandatoryPrefix, json, changedNames >>

\* encodeRScript(text, prefixedColumnsFound, { mandatoryPrefix }): originalNames() is
\* called, and sorts, once per prefix.
EncodeRScriptAllowedPrefixes ==
    /\ ~crashed
    /\ script.op = "none"
    /\ IF (_encodingMapInvalidated \/ _originalNamesInvalidated) /\ _columnEncoder = NULL
       THEN /\ NullDereference
            /\ script' = ScriptCrashed("encodeRScript_allowedPrefixes")
       ELSE \E map \in EncodingMapViews, prefixes \in sortPrefixes({ mandatoryPrefix }) :
              \E namesPerCall \in [1 .. Len(prefixes) -> originalNamesReturned] :
                 /\ encodingMap(map)
                 /\ originalNames(namesPerCall[Len(prefixes)])
                 /\ LET done == encodeRScript_allowedPrefixes(text, map, namesPerCall, prefixes)
                    IN  script' = [ op |-> "encodeRScript_allowedPrefixes",
                                    outcome |-> done.outcome, out |-> done.text,
                                    found |-> done.found, log |-> done.log,
                                    prefixedColumnsFound |-> done.prefixedColumnsFound ]
                 /\ UNCHANGED << registryCore, otherViews >>
    /\ UNCHANGED << call, text, mandatoryPrefix, json, changedNames >>

\* replaceAll(text, encodingMap(), originalNames())
ReplaceAll ==
    /\ ~crashed
    /\ script.op = "none"
    /\ IF (_encodingMapInvalidated \/ _originalNamesInvalidated) /\ _columnEncoder = NULL
       THEN /\ NullDereference
            /\ script' = ScriptCrashed("replaceAll")
       ELSE \E map \in EncodingMapViews, names \in originalNamesReturned :
              /\ encodingMap(map)
              /\ originalNames(names)
              /\ LET done == replaceAll(text, map, names)
                 IN  script' = [ op |-> "replaceAll", outcome |-> done.outcome,
                                 out |-> done.out, steps |-> done.steps ]
              /\ UNCHANGED << registryCore, otherViews >>
    /\ UNCHANGED << call, text, mandatoryPrefix, json, changedNames >>

-----------------------------------------------------------------------------
(* The script specifications: one call on a text over a small alphabet, with   *)
(* the names of one mapping registered on the primary encoder.                 *)

\* All texts of at most MaxTextLen characters of chars.
Texts(chars, len) == UNION { [1 .. n -> chars] : n \in 0 .. len }

\* The mappings that register the non-empty subsets of names, as plain names.
PlainNames(names) == { [n \in sub |-> "unknown"] : sub \in (SUBSET names) \ { {} } }

ScriptInit(chars, len, maps, prefixes) ==
    /\ \E namesWithTypes \in maps : CallRegistry(namesWithTypes, NoSet, << >>)
    /\ call = NoCall
    /\ text \in Texts(chars, len)
    /\ mandatoryPrefix \in prefixes
    /\ script = NoScript
    /\ json = NoJson
    /\ changedNames = EmptyMap

\* Names next to brackets, blanks and name characters.
InitScript ==
    ScriptInit({ "a", "b", ".", " ", "\t", "(", "+" }, MaxTextLen,
               PlainNames({ << "a" >>, << "b" >> }), { << >> })

NextScript ==
    \/ EncodeRScript

SpecScript == InitScript /\ [][NextScript]_vars

\* Names, some with a quote in them, in texts with quotes; the texts are one
\* character longer, for a name and an operator between two quotes.
InitQuotes ==
    ScriptInit({ "a", "b", "'", "\"", "+" }, MaxTextLen + 1,
               PlainNames({ << "b" >>, << "'" >>, << "'", "a" >> }), { << >> })

NextQuotes ==
    \/ EncodeRScript

SpecQuotes == InitQuotes /\ [][NextQuotes]_vars

\* Names with and without a prefix in front.
InitPrefix ==
    ScriptInit({ "a", "b", ".", "+", " " }, MaxTextLen,
               PlainNames({ << "a" >>, << "b" >> }), { << "." >>, << "b", "." >> })

NextPrefix ==
    \/ EncodeRScriptMandatoryPrefix
    \/ EncodeRScriptAllowedPrefixes

SpecPrefix == InitPrefix /\ [][NextPrefix]_vars

\* Names that are prefixes of one another.
InitReplace ==
    ScriptInit({ "a", "b", "c" }, MaxTextLen,
               PlainNames({ << "a", "b" >>, << "a", "b", "c" >>, << "b" >> }), { << >> })

NextReplace ==
    \/ ReplaceAll

SpecReplace == InitReplace /\ [][NextReplace]_vars


-----------------------------------------------------------------------------
(* Claims about script text. *)

\* The identifier class [A-Za-z0-9_.], written out.
IdentifierClass ==
    { "a", "b", "c", "d", "e", "f", "g", "h", "i", "j", "k", "l", "m", "n", "o", "p", "q", "r", "s", "t", "u", "v", "w", "x", "y", "z" }
    \cup { "A", "B", "C", "D", "E", "F", "G", "H", "I", "J", "K", "L", "M", "N", "O", "P", "Q", "R", "S", "T", "U", "V", "W", "X", "Y", "Z" }
    \cup { "0", "1", "2", "3", "4", "5", "6", "7", "8", "9", "_", "." }

RegisteredNames == DOMAIN Primary._encodingMap

\* The offsets of the input text where name occurs literally.
Occurrences(name) ==
    { o \in 0 .. (Len(text) - Len(name)) : SubSeq(text, o + 1, o + Len(name)) = name }

\* The occurrence of name at offset o of the input text was replaced.
ReplacedAt(o, name) ==
    \E i \in DOMAIN script.log : script.log[i].origin = o /\ script.log[i].name = name

\* In txt the character in front of offset o, resp. at offset o, is of the identifier class.
IdentifierBefore(txt, o) == o > 0 /\ txt[o] \in IdentifierClass

IdentifierAt(txt, o) == o < Len(txt) /\ txt[o + 1] \in IdentifierClass

\* In txt offset o starts a run of spaces and tabs, possibly empty, that ends at "(".
CallFollows(txt, o) ==
    \E k \in o .. (Len(txt) - 1) :
        /\ txt[k + 1] = "("
        /\ \A j \in o .. (k - 1) : txt[j + 1] \in { " ", "\t" }

\* The delimiter of the quoted run open in front of offset o of txt, "" when none:
\* a quote opens a run, the same quote closes it.
RECURSIVE OpenDelimiter(_, _)
OpenDelimiter(txt, o) ==
    IF o = 0 THEN ""
    ELSE LET d == OpenDelimiter(txt, o - 1)
             c == txt[o]
         IN  IF d = "" THEN (IF c \in { "'", "\"" } THEN c ELSE "")
             ELSE IF c = d THEN "" ELSE d

\* Offset o of txt lies inside a quoted run: behind the quote that opens the run
\* and in front of the quote that closes it.
InQuotedRun(txt, o) ==
    /\ OpenDelimiter(txt, o) # ""
    /\ o < Len(txt)
    /\ txt[o + 1] # OpenDelimiter(txt, o)

EncodedScript == script.op = "encodeRScript" /\ script.outcome = "returned"

C5_QuoteSafety ==
    EncodedScript =>
        \A i \in DOMAIN script.log :
            script.log[i].origin >= 0 => ~InQuotedRun(text, script.log[i].origin)

\* C6: encoding script text without prefix never replaces an occurrence of a
\* registered name that has an identifier character directly in front of it or
\* directly behind it, in the text as it is examined and in the input text; a text
\* whose occurrences all have such a neighbour is returned unchanged.
C6_BoundarySafety ==
    EncodedScript =>
        /\ \A i \in DOMAIN script.log :
              LET e == script.log[i]
              IN  /\ ~IdentifierBefore(e.before, e.pos)
                  /\ ~IdentifierAt(e.before, e.pos + Len(e.name))
        /\ \A name \in RegisteredNames : \A o \in Occurrences(name) :
              (IdentifierBefore(text, o) \/ IdentifierAt(text, o + Len(name)))
                  => ~ReplacedAt(o, name)
        /\ (\A name \in RegisteredNames : \A o \in Occurrences(name) :
               IdentifierBefore(text, o) \/ IdentifierAt(text, o + Len(name)))
              => script.out = text

\* A text encoded in which a name occurs inside a longer identifier, left alone,
\* and occurs free as well, replaced.
C6_Witness ==
    /\ EncodedScript
    /\ \E name \in RegisteredNames : \E o, q \in Occurrences(name) :
          /\ IdentifierBefore(text, o)
          /\ ~ReplacedAt(o, name)
          /\ ReplacedAt(q, name)

ReplacedAll == script.op = "replaceAll" /\ script.outcome = "returned"

\* C7: in replaceAll over the names sorted from long to short, whenever several
\* names have their next occurrence at the smallest offset, the longest of them is
\* the one replaced; a text that is itself a registered name becomes its identifier.
C7_LongestMatchFirst ==
    ReplacedAll =>
        /\ \A i \in DOMAIN script.steps :
              LET step == script.steps[i]
              IN  \A name \in RegisteredNames :
                      find(step.text, name, step.foundPos) = step.firstFoundPos
                          => Len(name) <= Len(step.replaceThis)
        /\ text \in RegisteredNames => script.out = encodingMap_map[text]

\* replaceAll ran on a text where two registered names start at the offset of the
\* first replacement.
C7_Witness ==
    /\ ReplacedAll
    /\ \E i \in DOMAIN script.steps :
          LET step == script.steps[i]
          IN  \E name \in RegisteredNames :
                  /\ name # step.replaceThis
                  /\ find(step.text, name, step.foundPos) = step.firstFoundPos
    /\ text \in RegisteredNames

EncodedPrefixes == script.op = "encodeRScript_allowedPrefixes" /\ script.outcome = "returned"

\* The names replaced in the pass of prefix q.
ReplacedWith(q) ==
    { script.log[i].name : i \in { j \in DOMAIN script.log : script.log[j].prefix = q } }

\* The prefix stands directly in front of offset o of txt.
PrefixBefore(txt, o, prefix) ==
    o >= Len(prefix) /\ SubSeq(txt, o - Len(prefix) + 1, o) = prefix

C9_MandatoryPrefix ==
    (script.op = "encodeRScript" /\ mandatoryPrefix # << >>) =>
        /\ script.outcome = "returned"
        /\ \A i \in DOMAIN script.log :
              LET e == script.log[i]
                  p == mandatoryPrefix
              IN  /\ PrefixBefore(e.before, e.pos, p)
                  /\ ~IdentifierBefore(e.before, e.pos - Len(p))
                  /\ e.origin >= 0
                  /\ PrefixBefore(text, e.origin, p)
                  /\ ~IdentifierBefore(text, e.origin - Len(p))
                  /\ e.after = SubSeq(e.before, 1, e.pos) \o encodingMap_map[e.name]
                                 \o SubSeq(e.before, e.pos + Len(e.name) + 1, Len(e.before))
                  /\ PrefixBefore(e.after, e.pos, p)
        /\ \A name \in RegisteredNames : \A o \in Occurrences(name) :
              o < Len(mandatoryPrefix) => ~ReplacedAt(o, name)
        /\ script.out = IF script.log = << >> THEN text
                        ELSE script.log[Len(script.log)].after
        /\ script.found = { script.log[i].name : i \in DOMAIN script.log }

\* A text encoded with a mandatory prefix in which a name stands too close to the
\* start to have the prefix, a name has the prefix behind an identifier character,
\* both left alone, and a name behind a free prefix was replaced.
C9_Witness ==
    /\ script.op = "encodeRScript"
    /\ mandatoryPrefix # << >>
    /\ script.outcome = "returned"
    /\ script.found # {}
    /\ \E name \in RegisteredNames : \E o \in Occurrences(name) :
          o < Len(mandatoryPrefix) /\ ~ReplacedAt(o, name)
    /\ \E name \in RegisteredNames : \E o \in Occurrences(name) :
          PrefixBefore(text, o, mandatoryPrefix) /\ ReplacedAt(o, name)


-----------------------------------------------------------------------------
(* The life-cycle specification: encoders created, named, read and destroyed,  *)
(* with up to MaxCascadeAux auxiliary encoders alive at once.  `call` records   *)
(* the last operation and the number of auxiliary encoders alive before it.    *)

CascadeAuxIds == { AuxNames[i] : i \in 1 .. MaxCascadeAux }

CascadeMaps == { (<< "a" >> :> "unknown") }

AuxAlive == Cardinality((DOMAIN encoders) \ { PrimaryId })

LifeCycleCall(op) ==
    call' = [op |-> op, in |-> AuxAlive, outcome |-> IF crashed' THEN "crashed" ELSE "returned",
             out |-> << >>]

NextCascade ==
    \/ columnEncoder /\ LifeCycleCall("columnEncoder") /\ UNCHANGED scriptVars
    \/ ColumnEncoderCtorOf(CascadeAuxIds) /\ LifeCycleCall("ColumnEncoder") /\ UNCHANGED scriptVars
    \/ SetCurrentNames(CascadeMaps) /\ LifeCycleCall("setCurrentNames") /\ UNCHANGED scriptVars
    \/ DestroyOther /\ LifeCycleCall("~ColumnEncoder other") /\ UNCHANGED scriptVars
    \/ DestroyPrimary /\ LifeCycleCall("~ColumnEncoder primary") /\ UNCHANGED scriptVars
    \/ ReadEncodingMap /\ LifeCycleCall("encodingMap") /\ UNCHANGED scriptVars
    \/ ReadDecodingMap /\ LifeCycleCall("decodingMap") /\ UNCHANGED scriptVars
    \/ ReadDecodingTypes /\ LifeCycleCall("decodingTypes") /\ UNCHANGED scriptVars

SpecCascade == Init /\ [][NextCascade]_vars

AllInvalidated ==
    /\ _encodingMapInvalidated
    /\ _decodingMapInvalidated
    /\ _decodingTypeInvalidated
    /\ _decoSafeMapInvalidated
    /\ _originalNamesInvalidated
    /\ _encodedNamesInvalidated

\* C11: destroying the primary encoder while auxiliary encoders are alive destroys
\* all of them: no encoder is left, there is no primary and no auxiliary set, and
\* every aggregate view is marked for rebuilding.  Destroying an auxiliary encoder
\* removes that encoder alone: the primary and the other auxiliaries stay as they
\* are, in the set and with their tables.
C11_DestructionCascade ==
    [][ /\ (/\ _columnEncoder # NULL
            /\ _columnEncoder' = NULL
            /\ _otherEncoders # NoSet)
          => /\ ~crashed'
             /\ encoders' = << >>
             /\ _otherEncoders' = NoSet
             /\ AllInvalidated'
        /\ (_columnEncoder' = _columnEncoder /\ DOMAIN encoders' # DOMAIN encoders
              /\ (DOMAIN encoders') \subseteq (DOMAIN encoders))
          => \E this \in (DOMAIN encoders) \ { _columnEncoder } :
                /\ DOMAIN encoders' = (DOMAIN encoders) \ { this }
                /\ \A other \in DOMAIN encoders' : encoders'[other] = encoders[other]
                /\ _otherEncoders # NoSet
                /\ SetAt(_otherEncoders') = SetAt(_otherEncoders) \ { this }
                /\ ~crashed'
      ]_vars

\* The primary encoder was destroyed while two auxiliary encoders were alive and
\* the merged encode map had been read.
C11_Witness ==
    /\ call.op = "~ColumnEncoder primary"
    /\ call.in = 2
    /\ call.outcome = "returned"
    /\ encoders = << >>
    /\ _columnEncoder = NULL
    /\ _otherEncoders = NoSet
    /\ encodingMap_map # EmptyMap


-----------------------------------------------------------------------------
(* Documents: encodeJson and decodeJson.  A Json::Value is a record of its     *)
(* type and its content.                                                       *)

JsonString(value) == [type |-> "stringValue", value |-> value]

JsonInt == [type |-> "intValue"]

JsonArray(items) == [type |-> "arrayValue", items |-> items]

JsonObject(members) == [type |-> "objectValue", members |-> members]

JsonThrew == [outcome |-> "threw", json |-> [type |-> "nullValue"]]

JsonReturned(value) == [outcome |-> "returned", json |-> value]

\* ColumnEncoder::replaceAllStrict
replaceAllStrict(txt, map) == IF txt \in DOMAIN map THEN map[txt] ELSE txt

\* for(const auto & origNew : changedMembers) { json[new] = json[orig]; removeMember(orig); }
RECURSIVE changedMembersLoop(_, _, _)
changedMembersLoop(members, origs, changedMembers) ==
    IF origs = << >> THEN members
    ELSE LET orig  == Head(origs)
             new   == changedMembers[orig]
             moved == MapPut(members, new, members[orig])
         IN  changedMembersLoop(Without(moved, orig), Tail(origs), changedMembers)

\* replaceStrict ? replaceAllStrict(optionName, map) : replaceAll(optionName, map, names)
replaceName(optionName, map, names, replaceStrict) ==
    IF replaceStrict THEN Returned(replaceAllStrict(optionName, map))
    ELSE LET done == replaceAll(optionName, map, names)
         IN  [outcome |-> done.outcome, out |-> done.out]

\* ColumnEncoder::replaceAll(Json::Value & json, map, names, replaceNames, replaceStrict)
RECURSIVE replaceAllJson(_, _, _, _, _)
replaceAllJson(value, map, names, replaceNames, replaceStrict) ==
    CASE value.type = "arrayValue" ->
           LET done == [i \in DOMAIN value.items |->
                          replaceAllJson(value.items[i], map, names, replaceNames, replaceStrict)]
           IN  IF \E i \in DOMAIN done : done[i].outcome = "threw" THEN JsonThrew
               ELSE JsonReturned(JsonArray([i \in DOMAIN done |-> done[i].json]))
      [] value.type = "objectValue" ->
           LET optionNames == DOMAIN value.members
               done == [optionName \in optionNames |->
                          replaceAllJson(value.members[optionName], map, names,
                                         replaceNames, replaceStrict)]
               replacedName == [optionName \in optionNames |->
                                  IF replaceNames
                                  THEN replaceName(optionName, map, names, replaceStrict)
                                  ELSE Returned(optionName)]
           IN  IF \/ \E optionName \in optionNames : done[optionName].outcome = "threw"
                  \/ \E optionName \in optionNames : replacedName[optionName].outcome = "threw"
               THEN JsonThrew
               ELSE LET changed == { optionName \in optionNames :
                                        replacedName[optionName].out # optionName }
                    IN  JsonReturned(JsonObject(changedMembersLoop(
                            [optionName \in optionNames |-> done[optionName].json],
                            KeysInOrder(changed),
                            [optionName \in changed |-> replacedName[optionName].out])))
      [] value.type = "stringValue" ->
           LET done == replaceName(value.value, map, names, replaceStrict)
           IN  IF done.outcome = "threw" THEN JsonThrew
               ELSE JsonReturned(JsonString(done.out))
      [] OTHER -> JsonReturned(value)

\* encodeJson(json, replaceNames, replaceStrict) followed, when it returns, by
\* decodeJson(json, replaceNames).
EncodeDecodeJson ==
    /\ ~crashed
    /\ script.op = "none"
    /\ _columnEncoder # NULL
    /\ \E map \in EncodingMapViews, names \in originalNamesReturned :
          /\ encodingMap(map)
          /\ originalNames(names)
          /\ LET encoded == replaceAllJson(json.doc, map, names, json.replaceNames,
                                           json.replaceStrict)
             IN  IF encoded.outcome = "threw"
                 THEN /\ script' = [op |-> "encodeJson", outcome |-> "threw"]
                      /\ UNCHANGED << decodingMapView, encodedNamesView >>
                 ELSE \E dmap \in DecodingMapViews, enames \in encodedNamesReturned :
                        /\ decodingMap(dmap)
                        /\ encodedNames(enames)
                        /\ LET decoded == replaceAllJson(encoded.json, dmap, enames,
                                                         json.replaceNames, FALSE)
                           IN  script' = [op |-> "decodeJson", outcome |-> decoded.outcome,
                                          encoded |-> encoded.json, out |-> decoded.json]
    /\ UNCHANGED << registryCore, decodingTypesView, decodingMapSafeHtmlView,
                    call, text, mandatoryPrefix, json, changedNames >>

\* The mappings registered before a document is encoded.
JsonMaps ==
    { (<< "a" >> :> "unknown"),
      (<< "a" >> :> "scale"),
      (<< "a" >> :> "unknown") @@ (<< "b" >> :> "unknown"),
      (<< "a" >> :> "nominalText") }

\* The column references a mapping registers: its names, and the qualified forms of
\* the names with a declared type.
ColumnReferences(namesWithTypes) ==
    (DOMAIN namesWithTypes)
    \cup { name \o << "." >> \o columnTypeToString(QualifyingTypes[i]) :
             name \in { n \in DOMAIN namesWithTypes : namesWithTypes[n] # "unknown" },
             i \in 1 .. Len(QualifyingTypes) }

MemberNames == { << "a" >>, << "x" >> }

\* The documents over the leaves: a leaf, an array of one or two leaves, an object
\* of one or two members, and an array or an object holding one of those.
Leaves(refs) == { JsonString(ref) : ref \in refs } \cup { JsonInt }

Flat(refs) ==
    Leaves(refs)
    \cup { JsonArray(<< x >>) : x \in Leaves(refs) }
    \cup { JsonArray(<< x, y >>) : x \in Leaves(refs), y \in Leaves(refs) }
    \cup { JsonObject(k :> x) : k \in MemberNames, x \in Leaves(refs) }
    \cup { JsonObject((<< "a" >> :> x) @@ (<< "x" >> :> y)) : x \in Leaves(refs), y \in Leaves(refs) }

Documents(refs) ==
    Flat(refs)
    \cup { JsonArray(<< x >>) : x \in Flat(refs) }
    \cup { JsonObject(k :> x) : k \in MemberNames, x \in Flat(refs) }

InitJson ==
    /\ \E namesWithTypes \in JsonMaps :
          /\ CallRegistry(namesWithTypes, NoSet, << >>)
          /\ \E doc \in Documents(ColumnReferences(namesWithTypes)),
                replaceNames \in BOOLEAN, replaceStrict \in BOOLEAN :
                json = [doc |-> doc, replaceNames |-> replaceNames,
                        replaceStrict |-> replaceStrict]
    /\ call = NoCall
    /\ text = << >>
    /\ mandatoryPrefix = << >>
    /\ script = NoScript
    /\ changedNames = EmptyMap

NextJson ==
    \/ EncodeDecodeJson

SpecJson == InitJson /\ [][NextJson]_vars

\* C12 as stated: for every document whose string leaves are column references
\* registered in the encoder, bare or type-qualified, encoding the document and
\* decoding the result gives the document back, with and without key renaming.
C12_DocumentRoundTrip ==
    script.op \in { "encodeJson", "decodeJson" } =>
        /\ script.outcome = "returned"
        /\ script.out = json.doc


-----------------------------------------------------------------------------
(* Rewriting a script: replaceColumnNamesInRScript, removeColumnNamesFromRScript. *)

JASPColumn_ == << "J", "A", "S", "P", "C", "o", "l", "u", "m", "n", "_" >>

_For_Replacement == << "_", "F", "o", "r", "_", "R", "e", "p", "l", "a", "c", "e", "m", "e", "n", "t" >>

\* for(const std::string & encodedName : _encodedNames) of the constructor
RECURSIVE decodeDifferentlyLoop(_, _, _)
decodeDifferentlyLoop(e, encodedNames_, decodeDifferently) ==
    IF encodedNames_ = << >> THEN e
    ELSE LET encodedName == Head(encodedNames_)
             e1 == IF e._decodingMap[encodedName] \in DOMAIN decodeDifferently
                   THEN [e EXCEPT !._decodingMap =
                            MapPut(@, encodedName, decodeDifferently[e._decodingMap[encodedName]])]
                   ELSE e
         IN  decodeDifferentlyLoop(e1, Tail(encodedNames_), decodeDifferently)

\* ColumnEncoder::ColumnEncoder(decodeDifferently): the encoders it can leave behind,
\* one per arrangement the sort of _originalNames can produce.
ColumnEncoder_decodeDifferently(decodeDifferently) ==
    LET tables == setCurrentNamesTables(NewColumnEncoder(JASPColumn_, _For_Replacement),
                                        [oriNew \in DOMAIN decodeDifferently |-> "unknown"])
        named  == decodeDifferentlyLoop(tables, tables._encodedNames, decodeDifferently)
    IN  { [named EXCEPT !._originalNames = sorted] :
            sorted \in sortVectorBigToSmall(tables._originalNames) }

\* The second step as it would be if it ran over the names again, in the script
\* the first step would have produced with the new names in place of the identifiers.
replaceColumnNamesInRScript_Sequential(rCode, changedNames_) ==
    { oldColLoop(ScriptOf(rCode), changedNames_, tempEncoder._originalNames, << >>).text
        : tempEncoder \in ColumnEncoder_decodeDifferently(changedNames_) }

\* ColumnEncoder::replaceColumnNamesInRScript: the texts it can return.
replaceColumnNamesInRScript(rCode, changedNames_) ==
    { replaceAll(encodeRScript(ScriptOf(rCode), tempEncoder._encodingMap,
                               tempEncoder._originalNames, << >>).text,
                 tempEncoder._decodingMap, tempEncoder._encodedNames).out
        : tempEncoder \in ColumnEncoder_decodeDifferently(changedNames_) }

stop_column == << "s", "t", "o", "p", "(", "'", "c", "o", "l", "u", "m", "n", " " >>

was_removed == << " ", "w", "a", "s", " ", "r", "e", "m", "o", "v", "e", "d", " ", "f", "r", "o", "m", " ", "t", "h", "i", "s", " ", "R", "S", "c", "r", "i", "p", "t", "'", ")" >>

\* ColumnEncoder::removeColumnNamesFromRScript
removeColumnNamesFromRScript(rCode, colsToRemove) ==
    replaceColumnNamesInRScript(rCode,
        [col \in colsToRemove |-> stop_column \o col \o was_removed])

\* replaceColumnNamesInRScript(text, changedNames); the constructor of the temporary
\* encoder runs setCurrentNames, which marks every aggregate view for rebuilding.
ReplaceColumnNamesInRScript ==
    /\ ~crashed
    /\ script.op = "none"
    /\ \E out \in replaceColumnNamesInRScript(text, changedNames) :
          script' = [op |-> "replaceColumnNamesInRScript", outcome |-> "returned", out |-> out]
    /\ invalidateAll
    /\ UNCHANGED << registryCore, cacheVars, call, text, mandatoryPrefix, json, changedNames >>

\* removeColumnNamesFromRScript(text, the keys of changedNames)
RemoveColumnNamesFromRScript ==
    /\ ~crashed
    /\ script.op = "none"
    /\ \E out \in removeColumnNamesFromRScript(text, DOMAIN changedNames) :
          script' = [op |-> "removeColumnNamesFromRScript", outcome |-> "returned", out |-> out]
    /\ invalidateAll
    /\ UNCHANGED << registryCore, cacheVars, call, text, mandatoryPrefix, json, changedNames >>

\* The mappings of the non-empty subsets of keys to values.
Mappings(keys, values) == UNION { [sub -> values] : sub \in (SUBSET keys) \ { {} } }

InitRewrite ==
    /\ CallRegistry((<< "a" >> :> "unknown"), NoSet, << >>)
    /\ call = NoCall
    /\ text \in Texts({ "a", "b", "+", "\"" }, MaxTextLen)
    /\ mandatoryPrefix = << >>
    /\ script = NoScript
    /\ json = NoJson
    /\ changedNames \in Mappings({ << "a" >>, << "b" >>, << "a", "b" >> },
                                 { << "a" >>, << "b" >> })

NextRewrite ==
    \/ ReplaceColumnNamesInRScript
    \/ RemoveColumnNamesFromRScript

SpecRewrite == InitRewrite /\ [][NextRewrite]_vars

\* The key of m that occurs free and unquoted at offset o of the input text, << >>
\* when there is none: no identifier character in front of it or behind it, no call
\* parenthesis behind it, and o not inside a quoted run.
FreeKeyAt(m, o) ==
    LET keys == { key \in DOMAIN m :
                    /\ o \in Occurrences(key)
                    /\ ~IdentifierBefore(text, o)
                    /\ ~IdentifierAt(text, o + Len(key))
                    /\ ~CallFollows(text, o + Len(key))
                    /\ OpenDelimiter(text, o) = "" }
    IN  IF keys = {} THEN << >> ELSE CHOOSE key \in keys : TRUE

\* The input text from offset o on, with every free and unquoted occurrence of a
\* key of m replaced by its value, in one pass from left to right.
RECURSIVE Substituted(_, _)
Substituted(m, o) ==
    IF o >= Len(text) THEN << >>
    ELSE LET key == FreeKeyAt(m, o)
         IN  IF key = << >> THEN << text[o + 1] >> \o Substituted(m, o + 1)
             ELSE m[key] \o Substituted(m, o + Len(key))

-----------------------------------------------------------------------------
(* Claims about the name table under repeated setCurrentNames. *)

Elements(vec) == { vec[i] : i \in 1 .. Len(vec) }

\* The names the last setCurrentNames of the primary registered: each entry, and
\* the three qualified forms of each entry with a known type.
LastRegistered ==
    DOMAIN Primary._dataSetTypes
      \cup { Qualified(n, QualifyingTypes[i]) : n \in DataColumns, i \in 1 .. Len(QualifyingTypes) }

\* C14: after any sequence of setNames calls on one encoder, every name of its
\* originalNames is a key of its encodingMap, every name of its encodedNames is a key
\* of its decodingMap, no name is left over from an earlier call, and encodeRScript
\* over the registered names does not look up a name that is missing from the map.
C14_NameTableInvariant ==
    PrimaryAlive =>
      /\ Elements(Primary._originalNames) \subseteq DOMAIN Primary._encodingMap
      /\ Elements(Primary._encodedNames) \subseteq DOMAIN Primary._decodingMap
      /\ Elements(Primary._originalNames) \subseteq LastRegistered
      /\ encodeRScript(ScriptOf(<< >>), Primary._encodingMap,
                       Primary._originalNames, << >>).outcome = "returned"


\* The identifiers the primary can have generated for the names of NamePool.
IdPool ==
    { GeneratedName(PrimaryAffixes, n) : n \in 0 .. Cardinality(NamePool) * Len(QualifyingTypes) }

\* The identifier was assigned by the last setCurrentNames to an entry whose declared
\* type is unknown.
AssignedToUnknown(id) ==
    \E n \in DOMAIN Primary._dataSetTypes :
        /\ Primary._dataSetTypes[n] = "unknown"
        /\ n \in DOMAIN Primary._encodingMap
        /\ Primary._encodingMap[n] = id

\* C15: type map freshness.  After any sequence of setNames calls ending with
\* setNames(S), typeOf(id) is unknown for every identifier assigned to an entry of S
\* whose declared type is unknown and for every identifier the last call did not assign.
C15_TypeMapFresh ==
    PrimaryAlive =>
      \A tm \in DecodingTypesViews : \A id \in IdPool :
          (AssignedToUnknown(id) \/ id \notin Elements(Primary._encodedNames))
             => columnTypeFromEncoded(id, tm) = "unknown"


-----------------------------------------------------------------------------
(* The sorted-lists specification: the primary encoder alone, registering up   *)
(* to four names, all levels or all data columns, so that the identifier       *)
(* counter reaches two digits.                                                 *)

SortedMaps ==
    { [n \in names |-> type] :
        names \in SUBSET { << "a" >>, << "b" >>, << "c" >>, << "d" >> },
        type \in { "unknown", "scale" } }

NextSorted ==
    \/ columnEncoder /\ UNCHANGED << call, scriptVars >>
    \/ SetCurrentNames(SortedMaps) /\ UNCHANGED << call, scriptVars >>

SpecSorted == Init /\ [][NextSorted]_vars

\* ColumnEncoder::columnNames()
columnNames == IF _columnEncoder # NULL THEN encoders[_columnEncoder]._originalNames ELSE << >>

\* ColumnEncoder::columnNamesEncoded()
columnNamesEncoded == IF _columnEncoder # NULL THEN encoders[_columnEncoder]._encodedNames ELSE << >>

\* C16: after every setNames call the encoder's originalNames list and its
\* encodedNames list are both in non-increasing order of length, for any number of
\* registered names; and every read of the aggregate originalNames / encodedNames
\* views returns a list in non-increasing order of length (stated for the lists of
\* up to MaxArranged names, whose arrangements are enumerated).
C16_SortedNameLists ==
    PrimaryAlive =>
      /\ BigToSmall(columnNames)
      /\ BigToSmall(columnNamesEncoded)
      /\ Len(columnNames) <= MaxArranged =>
            /\ \A vec \in originalNamesReturned : BigToSmall(vec)
            /\ \A vec \in encodedNamesReturned : BigToSmall(vec)


-----------------------------------------------------------------------------
(* The termination specification: replaceAll(text, map, names) followed one    *)
(* iteration of its while loop at a time.  The names are the keys of the map   *)
(* in the order a name table holds them, from long to short; the empty string  *)
(* can be one of them, and a replacement can be empty or hold a name.          *)

\* std::string::max_size(), scaled down: text.replace throws std::length_error for
\* a longer result.  No run over names that are not empty gets there, as each of
\* its iterations uses up a character of the input.
MaxGrownLen == 2 * MaxTextLen + 2

\* One evaluation of while(foundPos < std::string::npos) and of its body.
replaceAllWhile(txt, foundPos, map, names) ==
    IF ~(foundPos < npos) THEN [outcome |-> "returned", out |-> txt, foundPos |-> foundPos]
    ELSE LET first == replaceMeLoop(txt, names, foundPos, NothingFound)
         IN  IF first.firstFoundPos # npos
             THEN IF first.replaceThis \notin DOMAIN map
                  THEN [outcome |-> "threw", out |-> << >>, foundPos |-> first.firstFoundPos]
                  ELSE LET replacement == map[first.replaceThis]
                       IN  [ outcome  |-> "running",
                             out      |-> replace(txt, first.firstFoundPos,
                                                  Len(first.replaceThis), replacement),
                             foundPos |-> first.firstFoundPos + Len(replacement) ]
             ELSE [outcome |-> "running", out |-> txt, foundPos |-> npos]

\* The next iteration of the loop of the call in progress.
ReplaceAllWhile ==
    /\ script.op = "replaceAll"
    /\ script.outcome = "running"
    /\ LET next == replaceAllWhile(script.out, script.foundPos, changedNames,
                                   StableBigToSmall(KeysInOrder(DOMAIN changedNames)))
       IN  script' = IF Len(next.out) > MaxGrownLen
                     THEN [script EXCEPT !.outcome = "length_error"]
                     ELSE [op |-> "replaceAll", outcome |-> next.outcome,
                           out |-> next.out, foundPos |-> next.foundPos]
    /\ UNCHANGED << registryVars, call, text, mandatoryPrefix, json, changedNames >>

InitTerminates ==
    /\ CallRegistry(EmptyMap, NoSet, << >>)
    /\ call = NoCall
    /\ text \in Texts({ "a", "b" }, MaxTextLen)
    /\ mandatoryPrefix = << >>
    /\ script = [op |-> "replaceAll", outcome |-> "running", out |-> text, foundPos |-> 0]
    /\ json = NoJson
    /\ changedNames \in Mappings({ << >>, << "a" >>, << "a", "b" >> },
                                 { << >>, << "a" >>, << "b", "a" >> })

NextTerminates ==
    \/ ReplaceAllWhile

SpecTerminates == InitTerminates /\ [][NextTerminates]_vars /\ WF_vars(ReplaceAllWhile)

\* C17: replaceAll(text, map, names) terminates for every text, every name set
\* (the empty string can be a name) and every replacement map (a replacement can be
\* empty or contain a name): the loop started eventually ends, with no name left at
\* or after the cursor, and the text is returned.
C17_Terminates == <>(script.outcome = "returned")


-----------------------------------------------------------------------------
(* The overlap specification: encodeRScript with registered names that hold a  *)
(* character outside the identifier class, so that free occurrences of two     *)
(* names can overlap in the text.                                              *)

InitOverlap ==
    ScriptInit({ "a", "b", "+" }, MaxTextLen,
               PlainNames({ << "a" >>, << "+", "a" >>, << "a", "+", "b" >> }), { << >> })

NextOverlap ==
    \/ EncodeRScript

SpecOverlap == InitOverlap /\ [][NextOverlap]_vars

\* The offsets at or after cursor where name occurs free and unquoted in txt.
FreeFrom(txt, name, cursor) ==
    { o \in cursor .. (Len(txt) - Len(name)) :
        /\ SubSeq(txt, o + 1, o + Len(name)) = name
        /\ ~IdentifierBefore(txt, o)
        /\ ~IdentifierAt(txt, o + Len(name))
        /\ ~CallFollows(txt, o + Len(name))
        /\ OpenDelimiter(txt, o) = "" }

\* The cursor-resuming single pass from left to right: the free, unquoted occurrence
\* at the smallest offset at or after the cursor is replaced, that of the name first
\* in names when several start there, and the cursor moves just past the replacement.
RECURSIVE SinglePass(_, _, _, _)
SinglePass(txt, cursor, map, names) ==
    LET found == { i \in 1 .. Len(names) : FreeFrom(txt, names[i], cursor) # {} }
        at(i) == CHOOSE o \in FreeFrom(txt, names[i], cursor) :
                     \A q \in FreeFrom(txt, names[i], cursor) : o <= q
    IN  IF found = {} THEN txt
        ELSE LET i == CHOOSE j \in found :
                          \A m \in found : at(j) < at(m) \/ (at(j) = at(m) /\ j <= m)
             IN  SinglePass(replace(txt, at(i), Len(names[i]), map[names[i]]),
                            at(i) + Len(map[names[i]]), map, names)

\* C18: the output of encodeRScript equals the output of the cursor-resuming single
\* left-to-right pass restricted to free, unquoted occurrences, for every text and
\* name set, names that overlap each other in the text included.
C18_SinglePassEquivalent ==
    EncodedScript => script.out = SinglePass(text, 0, encodingMap_map, originalNames_vec)


-----------------------------------------------------------------------------
(* Claims about the aggregate caches. *)

\* C19: aggregate cache coherence.  After any sequence of registry operations
\* (auxiliary encoder created, setNames on any encoder, auxiliary encoder destroyed)
\* every read of a merged map returns a merge of the tables of the encoders alive at
\* the time of the read; no entry of a destroyed auxiliary encoder is returned.
C19_CacheCoherence ==
    PrimaryAlive =>
      /\ EncodingMapViews \subseteq encodingMapRebuilt
      /\ DecodingMapViews \subseteq decodingMapRebuilt
      /\ DecodingTypesViews \subseteq decodingTypesRebuilt


-----------------------------------------------------------------------------
(* The absent-primary specification: encoders are created and destroyed in any *)
(* order, a script is rewritten with a temporary encoder, and encode, decode   *)
(* and columnTypeFromEncoded are called on whichever encoder is alive.         *)

NextAbsent ==
    \/ columnEncoder /\ UNCHANGED << call, scriptVars >>
    \/ ColumnEncoderCtor /\ UNCHANGED << call, scriptVars >>
    \/ SetCurrentNames(CascadeMaps) /\ UNCHANGED << call, scriptVars >>
    \/ DestroyOther /\ UNCHANGED << call, scriptVars >>
    \/ DestroyPrimary /\ UNCHANGED << call, scriptVars >>
    \/ ReplaceColumnNamesInRScript
    \/ Encode /\ UNCHANGED scriptVars
    \/ Decode /\ UNCHANGED scriptVars
    \/ ColumnTypeFromEncoded /\ UNCHANGED scriptVars

SpecAbsent == Init /\ [][NextAbsent]_vars

\* C20: in every reachable registry state (before the primary encoder is requested,
\* after it was destroyed, with or without an auxiliary encoder ever created, after
\* a script was rewritten with a temporary encoder), encode, decode, typeOf and the
\* destruction of the primary encoder only use a primary encoder and an auxiliary set
\* that exist: no call dereferences a null _columnEncoder or _otherEncoders.
C20_NoAbsentUse == ~crashed

====
